---- MODULE Spec2Model ----
(***************************************************************************)
(* PipeLLM (src/PipeLLM.py): the per-shell session daemon, its line        *)
(* protocol over an abstract-namespace unix socket, the liveness poll that *)
(* ties the daemon to its shell, and the client paths that reach it.       *)
(***************************************************************************)
EXTENDS FiniteSets, Integers, Sequences, TLC

\* ------------------------------------------------------------------------
\* Bounds of the model
\* ------------------------------------------------------------------------
MaxLen == 2        \* longest text a peer puts in a `set`, in characters
MaxReqs == 2       \* lines the peers of SpecServe send, all connections together
MaxWireReqs == 2   \* lines the peer of SpecWire sends
NumConns == 2      \* connections / client invocations
NumDaemons == 2    \* daemon processes that can be spawned

\* ------------------------------------------------------------------------
\* Program constants
\* ------------------------------------------------------------------------
PollInterval == 5  \* asyncio.sleep(5) in check_shell_alive
RetryBudget == 20  \* for _ in range(20) in run_client
LineLimit == 65536 \* StreamReader limit of start_unix_server / open_unix_connection

Conns == 1..NumConns
Daemons == 1..NumDaemons

\* ------------------------------------------------------------------------
\* Text.  A text is a sequence of characters: "n" an ordinary character,
\* "LF" a newline, "BS" a backslash, and "BLK" a run of BlockLen ordinary
\* characters (one symbol, so that texts near the line limit stay small).
\* ------------------------------------------------------------------------
BlockLen == LineLimit - 30

Chars == {"n", "LF", "BS", "BLK"}

\* The delimiters run_client writes into a context, each one symbol.
Markers == {"[Context]", "[Prompt]", "[Response]"}

SeqsUpTo(S, k) == UNION {[1..i -> S] : i \in 0..k}

Text == SeqsUpTo(Chars, MaxLen)

IsPrefix(s, t) == Len(s) <= Len(t) /\ SubSeq(t, 1, Len(s)) = s

RECURSIVE Flatten(_)
Flatten(ss) == IF ss = <<>> THEN <<>> ELSE Head(ss) \o Flatten(Tail(ss))

\* json.dumps of one character of a string: newline and backslash are escaped.
EscapeChar(ch) ==
  CASE ch = "LF" -> <<"BS", "n">>
    [] ch = "BS" -> <<"BS", "BS">>
    [] OTHER     -> <<ch>>

\* json.dumps of a string, without the quotes.
Escape(text) == Flatten([i \in 1..Len(text) |-> EscapeChar(text[i])])

\* json.loads of the inside of a string literal: <<TRUE, text>> or <<FALSE, <<>>>>
\* (a raw newline, an envelope byte or a dangling or unknown escape is an error).
RECURSIVE Unescape(_)
Unescape(bytes) ==
  IF bytes = <<>> THEN <<TRUE, <<>>>>
  ELSE IF Head(bytes) = "BS" THEN
    IF Len(bytes) >= 2 /\ bytes[2] \in {"n", "BS"} THEN
      LET rest == Unescape(SubSeq(bytes, 3, Len(bytes))) IN
        IF rest[1]
          THEN <<TRUE, <<IF bytes[2] = "n" THEN "LF" ELSE "BS">> \o rest[2]>>
          ELSE <<FALSE, <<>>>>
    ELSE <<FALSE, <<>>>>
  ELSE IF Head(bytes) \in {"n", "BLK"} \cup Markers THEN
    LET rest == Unescape(Tail(bytes)) IN
      IF rest[1] THEN <<TRUE, <<Head(bytes)>> \o rest[2]>> ELSE <<FALSE, <<>>>>
  ELSE <<FALSE, <<>>>>

\* ------------------------------------------------------------------------
\* Messages.  Every JSON value of the model is a record [kind, data]:
\*   get / set / clear   request objects with that "action"
\*   setnodata           {"action": "set"} without a "data" key
\*   other               an object whose "action" is none of the three
\*   empty               {} (a falsy object)
\*   list                [1] (a truthy value that is no object)
\*   ctx                 {"type": "context", "data": ...}
\*   ok                  {"status": "ok"}
\*   ERR                 not JSON (json.loads raises)
\* ------------------------------------------------------------------------
Obj(kind, data) == [kind |-> kind, data |-> data]

JsonErr == Obj("ERR", <<>>)

\* json.dumps(obj): the bytes of the line, envelope pieces as single symbols.
Dumps(obj) ==
  CASE obj.kind = "get"       -> <<"{get}">>
    [] obj.kind = "clear"     -> <<"{clear}">>
    [] obj.kind = "set"       -> <<"{set:">> \o Escape(obj.data) \o <<"}">>
    [] obj.kind = "setnodata" -> <<"{set}">>
    [] obj.kind = "other"     -> <<"{other}">>
    [] obj.kind = "empty"     -> <<"{}">>
    [] obj.kind = "list"      -> <<"[1]">>
    [] obj.kind = "ctx"       -> <<"{ctx:">> \o Escape(obj.data) \o <<"}">>
    [] obj.kind = "ok"        -> <<"{ok}">>
    [] OTHER                  -> <<"junk">>

\* json.loads(line): the value, or JsonErr when the line is not JSON.
Loads(line) ==
  LET whole == [s \in {"{get}", "{clear}", "{set}", "{other}", "{}", "[1]", "{ok}"} |->
                  CASE s = "{get}"   -> "get"
                    [] s = "{clear}" -> "clear"
                    [] s = "{set}"   -> "setnodata"
                    [] s = "{other}" -> "other"
                    [] s = "{}"      -> "empty"
                    [] s = "[1]"     -> "list"
                    [] OTHER         -> "ok"]
  IN
  IF Len(line) = 1 /\ line[1] \in DOMAIN whole THEN Obj(whole[line[1]], <<>>)
  ELSE IF Len(line) >= 2 /\ line[1] \in {"{set:", "{ctx:"} /\ line[Len(line)] = "}" THEN
    LET inner == Unescape(SubSeq(line, 2, Len(line) - 1)) IN
      IF inner[1]
        THEN Obj(IF line[1] = "{set:" THEN "set" ELSE "ctx", inner[2])
        ELSE JsonErr
  ELSE JsonErr

\* Number of bytes each symbol of a line stands for.
Width(sym) ==
  CASE sym = "BLK"     -> BlockLen
    [] sym = "{get}"   -> 17
    [] sym = "{clear}" -> 19
    [] sym = "{set:"   -> 27
    [] sym = "{set}"   -> 17
    [] sym = "{other}" -> 17
    [] sym = "{ctx:"   -> 29
    [] sym = "{ok}"    -> 16
    [] sym = "}"       -> 2
    [] sym = "{}"      -> 2
    [] sym = "[1]"     -> 3
    [] sym = "junk"    -> 4
    [] sym = "[Context]"  -> 9
    [] sym = "[Prompt]"   -> 8
    [] sym = "[Response]" -> 10
    [] OTHER           -> 1

RECURSIVE LineWidth(_)
LineWidth(line) == IF line = <<>> THEN 0 ELSE Width(Head(line)) + LineWidth(Tail(line))

\* Exceeds the StreamReader limit: readline raises ValueError for such a line.
TooLong(line) == LineWidth(line) > LineLimit

\* Position of the first newline byte of buf, 0 when there is none.
FirstLF(buf) ==
  IF \E i \in 1..Len(buf) : buf[i] = "LF"
    THEN CHOOSE i \in 1..Len(buf) : buf[i] = "LF" /\ \A j \in 1..(i - 1) : buf[j] # "LF"
    ELSE 0

\* recv_json(reader) on a stream holding the unread bytes buf, eof telling
\* whether the peer has closed.  res is
\*   "wait"   readline is still blocked,
\*   "none"   recv_json returns None (end of stream),
\*   "raise"  an exception recv_json does not catch leaves it (ValueError of an
\*            over-long line, JSONDecodeError of a line that is not JSON),
\*   "obj"    the decoded value obj;
\* rest is what stays unread.
RecvJson(buf, eof) ==
  LET i    == FirstLF(buf)
      line == IF i > 0 THEN SubSeq(buf, 1, i - 1) ELSE buf
      rest == IF i > 0 THEN SubSeq(buf, i + 1, Len(buf)) ELSE <<>>
      val  == Loads(line)
  IN
  IF i = 0 /\ ~eof THEN [res |-> "wait", obj |-> JsonErr, rest |-> buf]
  ELSE IF i = 0 /\ buf = <<>> THEN [res |-> "none", obj |-> JsonErr, rest |-> <<>>]
  ELSE IF TooLong(line) \/ val = JsonErr THEN [res |-> "raise", obj |-> JsonErr, rest |-> rest]
  ELSE [res |-> "obj", obj |-> val, rest |-> rest]

\* send_json(writer, obj): the bytes appended to the stream.
SendJson(buf, obj) == buf \o Dumps(obj) \o <<"LF">>

\* ------------------------------------------------------------------------
\* State
\* ------------------------------------------------------------------------
VARIABLES
  shell,      \* the owning shell: [alive, deadFor (time since it died, capped)]
  daemon,     \* per daemon process: [st, context, timer, upFor, hook, via, last]
  addrOwner,  \* daemon bound to get_socket_path(shell_pid), 0 when unbound
  conn,       \* per connection: streams, handler state and the record of the exchange
  client      \* per client invocation: [pc, mode, tries, spawned, args, ctx, calls, out]

vars == <<shell, daemon, addrOwner, conn, client>>

TimeCap == PollInterval + 1

NoDaemon ==
  [st |-> "unborn", context |-> <<>>, timer |-> PollInterval, upFor |-> 0,
   hook |-> FALSE, via |-> "none", last |-> <<>>]

\* State(pid=shell_pid) once the server is bound and check_shell_alive sleeps.
ServingDaemon == [NoDaemon EXCEPT !.st = "serving"]

\* d      daemon the connection was accepted by (0: never connected)
\* inb    bytes written by the client the handler has not read
\* outb   bytes written by the handler the client has not read
\* ceof   the client has closed its end
\* h      daemon_handle task: "none", "run", "closed" (loop left), "raised"
\*        (left by an uncaught exception), "gone" (daemon process exited)
\* sent   values the client wrote as whole lines, in order
\* done   values the handler decoded and dispatched, in order
\* wrote  responses the handler wrote, decoded from the bytes written
\* expect what each written response must be by the contract
\* got    what the client's recv_json returned, in order
NoConn ==
  [d |-> 0, inb |-> <<>>, outb |-> <<>>, ceof |-> FALSE, h |-> "none",
   sent |-> <<>>, done |-> <<>>, wrote |-> <<>>, expect |-> <<>>, got |-> <<>>]

\* What an invocation is given: the flags of parse_args, the words of the
\* prompt, standard input (piped: not a terminal) and GEMINI_API_KEY (key).
NoArgs ==
  [help |-> FALSE, isolated |-> FALSE, clear |-> FALSE, print |-> FALSE,
   prompt |-> <<>>, piped |-> FALSE, stdin |-> <<>>, key |-> FALSE]

\* pc      where run_client stands
\* mode    the branch of run_client the arguments select
\* tries   failed turns of the retry loop
\* spawned calls of run_daemon
\* ctx     the local variable `context` / `new_context`
\* calls   calls of call_gemini
\* out     what the invocation reported, in order
NoClient ==
  [pc |-> "init", mode |-> "none", tries |-> 0, spawned |-> 0,
   args |-> NoArgs, ctx |-> <<>>, calls |-> 0, out |-> <<>>]

\* A daemon is serving for the shell, as after run_daemon_loop reached serve_forever.
InitServing ==
  /\ shell = [alive |-> TRUE, deadFor |-> 0]
  /\ daemon = [d \in Daemons |-> IF d = 1 THEN ServingDaemon ELSE NoDaemon]
  /\ addrOwner = 1
  /\ conn = [c \in Conns |-> NoConn]
  /\ client = [c \in Conns |-> NoClient]

\* ------------------------------------------------------------------------
\* daemon_handle
\* ------------------------------------------------------------------------
\* A write that replaces the context piecewise and is seen half done.
SetContextTorn(old, new) ==
  IF old # <<>> /\ new # <<>> THEN <<Head(new)>> \o Tail(old) ELSE new

\* `state.context = data.get("data", "")` and `state.context = ""`.
SetContext(old, new) == new

\* Response daemon_handle writes for a dispatched request, JsonErr for none.
Response(req, context) ==
  CASE req.kind = "get"                         -> Obj("ctx", context)
    [] req.kind \in {"set", "setnodata", "clear"} -> Obj("ok", <<>>)
    [] OTHER                                    -> JsonErr

\* A dispatch whose `set` keeps a context that is already there.
DispatchFirstWins(req, context) ==
  CASE req.kind = "set"                  -> IF context = <<>> THEN req.data ELSE context
    [] req.kind \in {"setnodata", "clear"} -> <<>>
    [] OTHER                             -> context

\* A dispatch whose `clear` only drops the first character of the context.
DispatchClearTrims(req, context) ==
  CASE req.kind = "set"       -> req.data
    [] req.kind = "setnodata" -> <<>>
    [] req.kind = "clear"     -> IF context = <<>> THEN <<>> ELSE Tail(context)
    [] OTHER                  -> context

\* A dispatch whose `set` appends the new text to the context.
DispatchMerges(req, context) ==
  CASE req.kind = "set"                  -> context \o req.data
    [] req.kind \in {"setnodata", "clear"} -> <<>>
    [] OTHER                             -> context

\* Context after the dispatch of req.
Dispatch(req, context) ==
  CASE req.kind = "set"                  -> SetContext(context, req.data)
    [] req.kind \in {"setnodata", "clear"} -> SetContext(context, <<>>)
    [] OTHER                             -> context

\* What the contract makes of the value a client sent: the context it leaves.
Leaves(req, last) ==
  CASE req.kind = "set"                  -> req.data
    [] req.kind \in {"setnodata", "clear"} -> <<>>
    [] OTHER                             -> last

\* A State object made anew for each accepted connection.
HandlerContextFresh(context) == <<>>

\* Context a new handler task starts from: the daemon's one State object.
HandlerContext(context) == context

\* One pass of the loop of daemon_handle for connection c: at_eof, recv_json,
\* the dispatch on "action" and the response, or the way out of the loop.
Handle(c) ==
  LET k    == conn[c]
      d    == k.d
      r    == RecvJson(k.inb, k.ceof)
      req  == r.obj
      nth  == Len(k.done) + 1
      asSent == IF nth <= Len(k.sent) THEN k.sent[nth] ELSE JsonErr
      resp == Response(req, daemon[d].context)
      line == IF resp = JsonErr THEN <<>> ELSE Dumps(resp) \o <<"LF">>
  IN
  /\ k.h = "run"
  /\ daemon[d].st = "serving"
  /\ r.res # "wait"
  /\ UNCHANGED <<shell, addrOwner, client>>
  /\ IF r.res = "none" \/ (r.res = "obj" /\ req.kind = "empty") THEN
       \* at_eof() / `if not data: break`, then finally: writer.close()
       /\ conn' = [conn EXCEPT ![c].h = "closed", ![c].inb = r.rest]
       /\ UNCHANGED daemon
     ELSE IF r.res = "raise" \/ req.kind = "list" THEN
       \* ValueError, JSONDecodeError or AttributeError pass the except clause;
       \* finally closes the writer and the task ends with the exception
       /\ conn' = [conn EXCEPT ![c].h = "raised", ![c].inb = r.rest]
       /\ UNCHANGED daemon
     ELSE
       /\ daemon' = [daemon EXCEPT ![d].context = Dispatch(req, @),
                                   ![d].last = Leaves(asSent, @)]
       /\ conn' = [conn EXCEPT
            ![c].inb = r.rest,
            ![c].done = Append(@, req),
            ![c].outb = IF k.ceof THEN @ ELSE @ \o line,
            ![c].wrote = IF resp = JsonErr THEN @ ELSE Append(@, Loads(Dumps(resp))),
            ![c].expect = IF Response(asSent, <<>>) = JsonErr THEN @
                          ELSE Append(@, Response(asSent, daemon[d].last))]

\* ------------------------------------------------------------------------
\* A peer on the local channel: any local process can connect and write lines.
\* ------------------------------------------------------------------------
\* asyncio.open_unix_connection(socket_path) accepted by the bound daemon.
Accept(c) ==
  [conn EXCEPT ![c] = [NoConn EXCEPT !.d = addrOwner, !.h = "run"]]

PeerConnect(c) ==
  /\ conn[c].h = "none"
  /\ client[c].pc = "init"
  /\ addrOwner # 0
  /\ conn' = Accept(c)
  /\ daemon' = [daemon EXCEPT ![addrOwner].context = HandlerContext(@)]
  /\ UNCHANGED <<shell, addrOwner, client>>

\* Lines written so far on the connections of S.
RECURSIVE LinesSent(_)
LinesSent(S) ==
  IF S = {} THEN 0
  ELSE LET c == CHOOSE x \in S : TRUE IN Len(conn[c].sent) + LinesSent(S \ {c})

\* The peer writes one whole line.
PeerSend(c, obj, maxReqs) ==
  /\ conn[c].h = "run"
  /\ ~conn[c].ceof
  /\ LinesSent(Conns) < maxReqs
  /\ conn' = [conn EXCEPT ![c].inb = SendJson(@, obj), ![c].sent = Append(@, obj)]
  /\ UNCHANGED <<shell, daemon, addrOwner, client>>

\* The peer writes the first n bytes of a line and closes (a truncated read
\* for the daemon); with n the whole value, the line only lacks its newline.
PeerSendPartial(c, obj, n, maxReqs) ==
  /\ conn[c].h = "run"
  /\ ~conn[c].ceof
  /\ LinesSent(Conns) < maxReqs
  /\ n \in 1..Len(Dumps(obj))
  /\ conn' = [conn EXCEPT
       ![c].inb = @ \o SubSeq(Dumps(obj), 1, n),
       ![c].sent = IF n = Len(Dumps(obj)) THEN Append(@, obj) ELSE @,
       ![c].ceof = TRUE]
  /\ UNCHANGED <<shell, daemon, addrOwner, client>>

\* The peer closes its end (writer.close()), at any point of an exchange.
PeerClose(c) ==
  /\ conn[c].h # "none"
  /\ ~conn[c].ceof
  /\ conn' = [conn EXCEPT ![c].ceof = TRUE]
  /\ UNCHANGED <<shell, daemon, addrOwner, client>>

\* The daemon's end of connection c is closed.
DaemonClosed(c) == conn[c].h \in {"closed", "raised", "gone"}

\* The peer reads one response with recv_json.
PeerRecv(c) ==
  LET r == RecvJson(conn[c].outb, DaemonClosed(c)) IN
  /\ conn[c].h # "none"
  /\ ~conn[c].ceof
  /\ r.res \in {"obj", "raise"}
  /\ conn' = [conn EXCEPT ![c].outb = r.rest,
                          ![c].got = Append(@, IF r.res = "obj" THEN r.obj ELSE JsonErr)]
  /\ UNCHANGED <<shell, daemon, addrOwner, client>>

\* ------------------------------------------------------------------------
\* SpecWire: one peer writing any line the protocol can meet, whole or cut.
\* ------------------------------------------------------------------------
WireReqs ==
  {Obj(k, <<>>) : k \in {"get", "clear", "setnodata", "other", "empty", "list", "junk"}}
    \cup {Obj("set", t) : t \in Text}

NextWire ==
  \/ PeerConnect(1)
  \/ \E obj \in WireReqs : PeerSend(1, obj, MaxWireReqs)
  \/ \E obj \in WireReqs : \E n \in 1..(MaxLen * 2 + 2) : PeerSendPartial(1, obj, n, MaxWireReqs)
  \/ PeerClose(1)
  \/ PeerRecv(1)
  \/ Handle(1)

SpecWire == InitServing /\ [][NextWire]_vars

\* ------------------------------------------------------------------------
\* SpecServe: several peers, one after the other or at once, writing get, set
\* and clear requests and closing when they like.
\* ------------------------------------------------------------------------
ServeText == {<<>>, <<"n", "n">>, <<"LF", "BS">>}

ServeReqs == {Obj("get", <<>>), Obj("clear", <<>>)} \cup {Obj("set", t) : t \in ServeText}

NextServe ==
  \E c \in Conns :
    \/ PeerConnect(c)
    \/ \E obj \in ServeReqs : PeerSend(c, obj, MaxReqs)
    \/ PeerClose(c)
    \/ Handle(c)

SpecServe == InitServing /\ [][NextServe]_vars

\* ------------------------------------------------------------------------
\* SpecRace: every connection issues get, set, get (or set, set, get), in any
\* interleaving with the others, and reads the answers.
\* ------------------------------------------------------------------------
CharSeq == <<"n", "LF", "BS">>

\* The text connection c sets: two characters, different for each connection.
RaceText(c) == <<CharSeq[(c % 3) + 1], CharSeq[((c + 1) % 3) + 1]>>

\* The text connection c sets first when it sets twice.
FirstText(c) == <<CharSeq[((c + 2) % 3) + 1]>>

\* What a connection may issue: get, set, get; the first connection may also
\* issue set, set, get.
Scripts(c) ==
  {<<Obj("get", <<>>), Obj("set", RaceText(c)), Obj("get", <<>>)>>}
    \cup IF c = 1
           THEN {<<Obj("set", FirstText(c)), Obj("set", RaceText(c)), Obj("get", <<>>)>>}
           ELSE {}

PeerScript(c) ==
  \E script \in Scripts(c) :
    /\ Len(conn[c].sent) < Len(script)
    /\ IsPrefix(conn[c].sent, script)
    /\ PeerSend(c, script[Len(conn[c].sent) + 1], NumConns * Len(script))

NextRace ==
  \E c \in Conns :
    \/ PeerConnect(c)
    \/ PeerScript(c)
    \/ PeerRecv(c)
    \/ Handle(c)

SpecRace == InitServing /\ [][NextRace]_vars

\* ------------------------------------------------------------------------
\* Properties of the protocol
\* ------------------------------------------------------------------------
Writes == {"set", "setnodata", "clear"}
Supported == Writes \cup {"get"}

\* The answers a daemon starting from context ctx owes to reqs, taken in order.
RECURSIVE Answers(_, _)
Answers(reqs, ctx) ==
  IF reqs = <<>> THEN <<>>
  ELSE LET r == Head(reqs)
           next == Leaves(r, ctx)
       IN IF r.kind \in Supported
            THEN <<IF r.kind = "get" THEN Obj("ctx", ctx) ELSE Obj("ok", <<>>)>>
                   \o Answers(Tail(reqs), next)
            ELSE Answers(Tail(reqs), next)

\* No connection but c has sent a request that writes the context.
SoleWriter(c) ==
  \A o \in Conns \ {c} : \A i \in 1..Len(conn[o].sent) : conn[o].sent[i].kind \notin Writes

Quiet(c) ==
  /\ conn[c].h # "none"
  /\ ~conn[c].ceof
  /\ RecvJson(conn[c].outb, DaemonClosed(c)).res \in {"wait", "none"}
  /\ DaemonClosed(c) \/ RecvJson(conn[c].inb, FALSE).res = "wait"

\* C2: a set carrying X followed by a get on the same connection, nothing else
\* writing in between, is answered X exactly, for every text X.
C2_RoundTrip ==
  \A c \in Conns :
    (/\ Quiet(c)
     /\ SoleWriter(c)
     /\ Len(conn[c].sent) = 2
     /\ conn[c].sent[1].kind = "set"
     /\ conn[c].sent[2].kind = "get")
    => /\ Len(conn[c].got) = 2
       /\ conn[c].got[2] = Obj("ctx", conn[c].sent[1].data)

\* C3: on one connection the handler dispatches the requests in the order sent
\* and has written the answer to each before it reads the next, so the answers
\* of a connection that alone writes the context are those of its requests
\* taken one after the other (set A, set B, get: B).
C3_InOrder ==
  \A c \in Conns :
    /\ IsPrefix(conn[c].done, conn[c].sent)
    /\ Len(conn[c].wrote) = Len(Answers(conn[c].done, <<>>))
    /\ SoleWriter(c) => conn[c].wrote = Answers(conn[c].done, <<>>)

\* set A, set B, get has been dispatched on one connection, A and B different.
C3_Witness ==
  \E c \in Conns :
    /\ Len(conn[c].done) = 3
    /\ conn[c].done[1].kind = "set" /\ conn[c].done[2].kind = "set"
    /\ conn[c].done[1].data # conn[c].done[2].data
    /\ conn[c].done[3].kind = "get"
    /\ conn[c].wrote[3] = Obj("ctx", conn[c].done[2].data)

\* The handler of c has read a line that is no request of the protocol.
ReadBadLine(c) ==
  \/ conn[c].h = "raised"
  \/ \E i \in 1..Len(conn[c].done) : conn[c].done[i].kind \notin Supported

\* C4: once the handler has read a malformed line or a request with an
\* unsupported action, the daemon has closed that connection.
C4_BadLineCloses ==
  \A c \in Conns : ReadBadLine(c) => DaemonClosed(c)

\* C5: whatever one connection does, the daemon keeps serving, the context is
\* what the last completed set or clear left, and the handler of a connection
\* that failed has ended with the connection closed.
C5_FailureContained ==
  /\ daemon[1].st = "serving" /\ addrOwner = 1
  /\ daemon[1].context = daemon[1].last
  /\ \A c \in Conns : ReadBadLine(c) => DaemonClosed(c)

\* Texts of the sets the daemon has completed.
CompletedSets ==
  UNION {{conn[c].done[i].data :
            i \in {j \in 1..Len(conn[c].done) : conn[c].done[j].kind = "set"}} :
         c \in Conns}

\* C9: in any interleaving of connections each issuing get, set, get, the data
\* a client reads in a get response is a whole value: the empty context or the
\* text of a set the daemon has completed.
C9_NoTornValue ==
  \A c \in Conns : \A i \in 1..Len(conn[c].got) :
    conn[c].got[i].kind = "ctx" => conn[c].got[i].data \in {<<>>} \cup CompletedSets

\* A client has read, in the answer to its last get, the text another
\* connection set after this client's own set.
C9_Witness ==
  \E c \in Conns : \E o \in Conns \ {c} :
    /\ Len(conn[c].got) = 3
    /\ conn[c].got[3] = Obj("ctx", RaceText(o))
    /\ Len(conn[o].done) >= 2

\* ------------------------------------------------------------------------
\* The daemon process: run_daemon_loop, check_shell_alive, its ways out
\* ------------------------------------------------------------------------
\* No daemon, no client yet: the shell has just started.
InitBoot ==
  /\ shell = [alive |-> TRUE, deadFor |-> 0]
  /\ daemon = [d \in Daemons |-> NoDaemon]
  /\ addrOwner = 0
  /\ conn = [c \in Conns |-> NoConn]
  /\ client = [c \in Conns |-> NoClient]

\* A path test that sees the name bound in the abstract namespace.
PathExistsBound(owner) == owner # 0

\* os.path.exists(socket_path): the path starts with a NUL byte (SOCKET_PREFIX),
\* for which os.path.exists answers False whoever is bound to the name.
PathExists(owner) == FALSE

\* A poll that never takes the shell for gone.
ShellGoneNever(alive) == FALSE

\* os.kill(shell_pid, 0) raises ProcessLookupError.
ShellGone(alive) == ~alive

\* cleanup(), the atexit hook: unlink the path if it exists.
Cleanup(owner) == IF PathExists(owner) THEN 0 ELSE owner

\* The process of daemon d ends.  The atexit hook runs only when the
\* interpreter shuts down (hookRuns), never after os._exit.  The kernel closes
\* the sockets of the process: the name it had bound is free again and its
\* connections are reset.
ExitDaemon(d, via, hookRuns) ==
  LET afterHook == IF hookRuns THEN Cleanup(addrOwner) ELSE addrOwner IN
  /\ daemon' = [daemon EXCEPT ![d].st = "exited", ![d].via = via, ![d].hook = hookRuns]
  /\ addrOwner' = IF afterHook = d THEN 0 ELSE afterHook
  /\ conn' = [c \in Conns |->
                IF conn[c].d = d /\ conn[c].h = "run"
                  THEN [conn[c] EXCEPT !.h = "gone"] ELSE conn[c]]

\* run_daemon_loop up to serve_forever: register cleanup, remove a path found
\* at the address, bind and listen, start check_shell_alive.  A bind on a name
\* another process holds raises OSError, which ends the interpreter.
DaemonStart(d) ==
  LET free == IF PathExists(addrOwner) THEN 0 ELSE addrOwner IN
  /\ daemon[d].st = "starting"
  /\ IF free = 0
       THEN /\ daemon' = [daemon EXCEPT ![d] = [ServingDaemon EXCEPT !.timer = PollInterval]]
            /\ addrOwner' = d
            /\ UNCHANGED conn
       ELSE ExitDaemon(d, "bindfail", TRUE)
  /\ UNCHANGED <<shell, client>>

\* check_shell_alive wakes from asyncio.sleep(5) and probes the shell.
PollShell(d) ==
  /\ daemon[d].st = "serving"
  /\ daemon[d].timer = 0
  /\ IF ShellGone(shell.alive)
       THEN ExitDaemon(d, "poll", FALSE)
       ELSE /\ daemon' = [daemon EXCEPT ![d].timer = PollInterval]
            /\ UNCHANGED <<addrOwner, conn>>
  /\ UNCHANGED <<shell, client>>

\* SIGTERM once the handler is installed and the server runs: os._exit(0).
Sigterm(d) ==
  /\ daemon[d].st = "serving"
  /\ ExitDaemon(d, "sigterm", FALSE)
  /\ UNCHANGED <<shell, client>>

\* The owning shell exits.
ShellExit ==
  /\ shell.alive
  /\ shell' = [alive |-> FALSE, deadFor |-> 0]
  /\ UNCHANGED <<daemon, addrOwner, conn, client>>

Min(a, b) == IF a < b THEN a ELSE b

\* One second passes.  A sleep that is over is served before time moves on.
Tick ==
  /\ \A d \in Daemons : daemon[d].st = "serving" => daemon[d].timer > 0
  /\ \/ ~shell.alive /\ shell.deadFor < TimeCap
     \/ \E d \in Daemons : daemon[d].st = "serving"
  /\ shell' = [shell EXCEPT !.deadFor = IF shell.alive THEN 0 ELSE Min(@ + 1, TimeCap)]
  /\ daemon' = [d \in Daemons |->
                  IF daemon[d].st = "serving"
                    THEN [daemon[d] EXCEPT !.timer = @ - 1, !.upFor = Min(@ + 1, TimeCap)]
                    ELSE daemon[d]]
  /\ UNCHANGED <<addrOwner, conn, client>>

\* ------------------------------------------------------------------------
\* run_client, daemon-connected mode
\* ------------------------------------------------------------------------
\* A connect failure makes the invocation start a daemon.
SpawnsOnFailAlways(mode) == TRUE

\* Every invocation but the bare one (no prompt, no stdin, no flag) starts a
\* daemon when the first connect fails.
SpawnsOnFail(mode) == mode # "probe"

\* The request a --clear or --print invocation sends.
RequestOf(mode) == IF mode = "clear" THEN Obj("clear", <<>>) ELSE Obj("get", <<>>)

\* The shell runs the tool: its parent pid is the shell's.
Invoke(c, mode) ==
  /\ shell.alive
  /\ client[c].pc = "init"
  /\ conn[c].h = "none"
  /\ client' = [client EXCEPT ![c].pc = "connect", ![c].mode = mode]
  /\ UNCHANGED <<shell, daemon, addrOwner, conn>>

\* A spawn that starts no process.
RunDaemonNone(d) == daemon

\* run_daemon(shell_pid): Popen of a detached daemon process.
RunDaemon(d) == [daemon EXCEPT ![d].st = "starting"]

\* The first open_unix_connection.  The bare invocation closes at once and
\* reports; the others go on, or start a daemon and retry.
ClientConnect(c) ==
  /\ client[c].pc = "connect"
  /\ UNCHANGED <<shell, addrOwner>>
  /\ IF addrOwner # 0 THEN
       /\ conn' = IF SpawnsOnFail(client[c].mode)
                    THEN Accept(c)
                    ELSE [Accept(c) EXCEPT ![c].ceof = TRUE]
       /\ client' = [client EXCEPT ![c].pc =
                       IF SpawnsOnFail(client[c].mode) THEN "request" ELSE "done"]
       /\ UNCHANGED daemon
     ELSE IF SpawnsOnFail(client[c].mode) THEN
       \E d \in Daemons :
         /\ daemon[d].st = "unborn"
         /\ \A e \in Daemons : daemon[e].st = "unborn" => d <= e
         /\ daemon' = RunDaemon(d)
         /\ client' = [client EXCEPT ![c].pc = "retry", ![c].spawned = @ + 1]
         /\ UNCHANGED conn
     ELSE
       /\ client' = [client EXCEPT ![c].pc = "done"]
       /\ UNCHANGED <<daemon, conn>>

\* A retry loop that gives up after its first failed turn.
RetriesLeftOnce(tries) == tries < 1

\* `for _ in range(20)`: another turn follows while fewer than 20 have failed.
RetriesLeft(tries) == tries < RetryBudget

\* One turn of the retry loop: sleep(0.1), then open_unix_connection again;
\* the `else` of the loop reports and returns.
ClientRetry(c) ==
  /\ client[c].pc = "retry"
  /\ UNCHANGED <<shell, daemon, addrOwner>>
  /\ IF addrOwner # 0 THEN
       /\ conn' = Accept(c)
       /\ client' = [client EXCEPT ![c].pc = "request"]
     ELSE
       /\ client' = [client EXCEPT
            ![c].tries = @ + 1,
            ![c].pc = IF RetriesLeft(client[c].tries + 1) THEN "retry" ELSE "failed",
            ![c].out = IF RetriesLeft(client[c].tries + 1) THEN @
                       ELSE Append(@, "Daemon failed to start.")]
       /\ UNCHANGED conn

\* send_json of the one request of a --clear or --print invocation.
ClientRequest(c) ==
  /\ client[c].pc = "request"
  /\ conn' = [conn EXCEPT ![c].inb = SendJson(@, RequestOf(client[c].mode)),
                          ![c].sent = Append(@, RequestOf(client[c].mode))]
  /\ client' = [client EXCEPT ![c].pc = "await"]
  /\ UNCHANGED <<shell, daemon, addrOwner>>

\* recv_json of the answer, then writer.close().  An exception recv_json lets
\* through ends the client with the connection closed by its exit.
ClientAwait(c) ==
  LET r == RecvJson(conn[c].outb, DaemonClosed(c)) IN
  /\ client[c].pc = "await"
  /\ client[c].mode \in {"clear", "print"}
  /\ r.res # "wait"
  /\ conn' = [conn EXCEPT ![c].outb = r.rest, ![c].ceof = TRUE,
                          ![c].got = IF r.res = "none" THEN @
                                     ELSE Append(@, IF r.res = "obj" THEN r.obj ELSE JsonErr)]
  /\ client' = [client EXCEPT ![c].pc = IF r.res = "raise" THEN "crashed" ELSE "done"]
  /\ UNCHANGED <<shell, daemon, addrOwner>>

ClientModes == {"probe", "clear", "print"}

\* ------------------------------------------------------------------------
\* run_client from its arguments: the branch taken, isolated mode, and the
\* get / generate / set sequence of a prompt or of piped input
\* ------------------------------------------------------------------------
\* str.strip(): leading and trailing whitespace removed ("LF" stands for it).
Solid(text) == {i \in 1..Len(text) : text[i] # "LF"}

Strip(text) ==
  IF Solid(text) = {} THEN <<>>
  ELSE LET first == CHOOSE i \in Solid(text) : \A j \in Solid(text) : i <= j
           last  == CHOOSE i \in Solid(text) : \A j \in Solid(text) : i >= j
       IN SubSeq(text, first, last)

\* user_prompt = " ".join(args.prompt).strip()
UserPrompt(a) == Strip(a.prompt)

\* `if stdin_data`: read_stdin gave a string (not a terminal) that is not empty.
HasStdin(a) == a.piped /\ a.stdin # <<>>

\* A run_client that looks at --clear and --print before --isolated.
ModeOfFlagsFirst(a) ==
  CASE a.help     -> "help"
    [] a.clear    -> "clear"
    [] a.print    -> "print"
    [] a.isolated -> "isolated"
    [] ~HasStdin(a) /\ UserPrompt(a) = <<>> -> "probe"
    [] OTHER      -> "turn"

\* The branch of run_client the arguments select, in the order of its tests.
ModeOf(a) ==
  CASE a.help     -> "help"
    [] a.isolated -> "isolated"
    [] ~HasStdin(a) /\ UserPrompt(a) = <<>> /\ ~a.print /\ ~a.clear -> "probe"
    [] a.clear    -> "clear"
    [] a.print    -> "print"
    [] OTHER      -> "turn"

\* Isolated mode up to the generation call: what is reported when it stops
\* before the call, "" when it goes on to call.
IsolatedStop(a) ==
  IF ~HasStdin(a) /\ UserPrompt(a) = <<>>
    THEN "Isolated mode requires a prompt or stdin."
  ELSE IF ~a.key THEN "Missing GEMINI_API_KEY"
  ELSE ""

\* The shell runs the tool with the arguments a.  --help and isolated mode
\* never reach the daemon-connected part.
InvokeWith(c, a) ==
  LET mode == ModeOf(a)
      stop == IF mode = "help" THEN "Usage" ELSE IsolatedStop(a)
  IN
  /\ shell.alive
  /\ client[c].pc = "init"
  /\ conn[c].h = "none"
  /\ client' = [client EXCEPT ![c] =
       [NoClient EXCEPT
          !.mode = mode,
          !.args = a,
          !.pc = IF mode \in {"help", "isolated"}
                   THEN (IF stop = "" THEN "icall" ELSE "done")
                   ELSE "connect",
          !.out = IF mode \in {"help", "isolated"} /\ stop # "" THEN <<stop>> ELSE <<>>]]
  /\ UNCHANGED <<shell, daemon, addrOwner, conn>>

\* Isolated mode: call_gemini, print the response, return.
ClientCallIsolated(c) ==
  /\ client[c].pc = "icall"
  /\ client' = [client EXCEPT ![c].calls = @ + 1, ![c].pc = "done",
                              ![c].out = Append(@, "Response")]
  /\ UNCHANGED <<shell, daemon, addrOwner, conn>>

\* msg.get("data", "") if msg else ""
DataOf(r) == IF r.res = "obj" /\ r.obj.kind = "ctx" THEN r.obj.data ELSE <<>>

\* `if context: context += "\n\n"` and `context += f"[Context]\n{stdin_data.strip()}"`
AddContext(context, stdin) ==
  (IF context # <<>> THEN context \o <<"LF", "LF">> ELSE <<>>)
    \o <<"[Context]", "LF">> \o Strip(stdin)

\* context + f"\n\n[Prompt]\n{user_prompt}\n\n[Response]\n{response_text.strip()}"
AddTurn(context, prompt, response) ==
  context \o <<"LF", "LF", "[Prompt]", "LF">> \o prompt
          \o <<"LF", "LF", "[Response]", "LF">> \o Strip(response)

\* A client that persists piped input before it looks for the API key.
AfterFetchStoresFirst(prompt, hasStdin, key) ==
  IF hasStdin /\ (prompt = <<>> \/ ~key) THEN "store"
  ELSE IF prompt = <<>> THEN "close"
  ELSE IF ~key THEN "nokey"
  ELSE "call"

\* What follows the get: persist the piped input and stop ("store"), stop
\* ("close"), stop for want of the API key ("nokey"), or generate ("call").
AfterFetch(prompt, hasStdin, key) ==
  IF prompt = <<>> THEN (IF hasStdin THEN "store" ELSE "close")
  ELSE IF ~key THEN "nokey"
  ELSE "call"

\* recv_json of the answer to the get, the piped input appended to the
\* context, and the branch that follows.  An exception recv_json lets through
\* ends the client with a traceback.
ClientFetch(c) ==
  LET r       == RecvJson(conn[c].outb, DaemonClosed(c))
      a       == client[c].args
      fetched == DataOf(r)
      context == IF HasStdin(a) THEN AddContext(fetched, a.stdin) ELSE fetched
      next    == AfterFetch(UserPrompt(a), HasStdin(a), a.key)
  IN
  /\ client[c].pc = "await"
  /\ client[c].mode = "turn"
  /\ r.res # "wait"
  /\ UNCHANGED <<shell, daemon, addrOwner>>
  /\ IF r.res = "raise" THEN
       /\ conn' = [conn EXCEPT ![c].outb = r.rest, ![c].ceof = TRUE,
                               ![c].got = Append(@, JsonErr)]
       /\ client' = [client EXCEPT ![c].pc = "crashed", ![c].out = Append(@, "Traceback")]
     ELSE
       /\ conn' = [conn EXCEPT
            ![c].outb = r.rest,
            ![c].got = IF r.res = "none" THEN @ ELSE Append(@, r.obj),
            ![c].ceof = next \in {"close", "nokey"}]
       /\ client' = [client EXCEPT
            ![c].ctx = context,
            ![c].pc = IF next \in {"close", "nokey"} THEN "done" ELSE next,
            ![c].out = IF next = "nokey" THEN Append(@, "Missing GEMINI_API_KEY") ELSE @]

\* call_gemini in the executor returns response; new_context is built.
ClientCall(c, response) ==
  /\ client[c].pc = "call"
  /\ client' = [client EXCEPT
       ![c].calls = @ + 1,
       ![c].ctx = AddTurn(@, UserPrompt(client[c].args), response),
       ![c].out = Append(@, "Response"),
       ![c].pc = "store"]
  /\ UNCHANGED <<shell, daemon, addrOwner, conn>>

\* send_json of the set that persists the context.
ClientStore(c) ==
  /\ client[c].pc = "store"
  /\ conn' = [conn EXCEPT ![c].inb = SendJson(@, Obj("set", client[c].ctx)),
                          ![c].sent = Append(@, Obj("set", client[c].ctx))]
  /\ client' = [client EXCEPT ![c].pc = "stored"]
  /\ UNCHANGED <<shell, daemon, addrOwner>>

\* recv_json of the answer to the set, "[Context Added]" when nothing was
\* generated, writer.close().
ClientFinish(c) ==
  LET r == RecvJson(conn[c].outb, DaemonClosed(c)) IN
  /\ client[c].pc = "stored"
  /\ r.res # "wait"
  /\ conn' = [conn EXCEPT ![c].outb = r.rest, ![c].ceof = TRUE,
                          ![c].got = IF r.res = "none" THEN @
                                     ELSE Append(@, IF r.res = "obj" THEN r.obj ELSE JsonErr)]
  /\ client' = [client EXCEPT
       ![c].pc = IF r.res = "raise" THEN "crashed" ELSE "done",
       ![c].out = IF r.res = "raise" THEN Append(@, "Traceback")
                  ELSE IF UserPrompt(client[c].args) = <<>> THEN Append(@, "[Context Added]")
                  ELSE @]
  /\ UNCHANGED <<shell, daemon, addrOwner>>

\* Exit status of the process: run_client returning ends main normally; only
\* an exception nothing catches ends the interpreter with status 1.
ExitStatus(pc) == IF pc = "crashed" THEN 1 ELSE 0

\* ------------------------------------------------------------------------
\* SpecLife: the shell, a client it runs, the daemon it starts, and time.
\* ------------------------------------------------------------------------
NextLife ==
  \/ \E mode \in ClientModes : Invoke(1, mode)
  \/ ClientConnect(1)
  \/ ClientRetry(1)
  \/ ClientRequest(1)
  \/ ClientAwait(1)
  \/ Handle(1)
  \/ \E d \in Daemons :
       \/ DaemonStart(d)
       \/ PollShell(d)
       \/ Sigterm(d)
  \/ ShellExit
  \/ Tick

SpecLife == InitBoot /\ [][NextLife]_vars

\* ------------------------------------------------------------------------
\* SpecSpawn: two client invocations of one shell running at once; the shell
\* stays.
\* ------------------------------------------------------------------------
NextSpawn ==
  \/ \E c \in {1, 2} :
       \/ \E mode \in {"probe", "print"} : Invoke(c, mode)
       \/ ClientConnect(c)
       \/ ClientRetry(c)
       \/ ClientRequest(c)
       \/ ClientAwait(c)
       \/ Handle(c)
  \/ \E d \in Daemons :
       \/ DaemonStart(d)
       \/ Sigterm(d)

SpecSpawn == InitBoot /\ [][NextSpawn]_vars

\* ------------------------------------------------------------------------
\* SpecProbe: bare invocations next to peers that write the context of a
\* serving daemon, which may be killed.
\* ------------------------------------------------------------------------
NextProbe ==
  \/ \E c \in Conns :
       \/ Invoke(c, "probe")
       \/ ClientConnect(c)
       \/ PeerConnect(c)
       \/ \E t \in ServeText \ {<<>>} : PeerSend(c, Obj("set", t), 1)
       \/ PeerClose(c)
       \/ Handle(c)
  \/ \E d \in Daemons : Sigterm(d)

SpecProbe == InitServing /\ [][NextProbe]_vars

\* ------------------------------------------------------------------------
\* Properties of the daemon's life
\* ------------------------------------------------------------------------
Serving(d) == daemon[d].st = "serving"

\* C6 as stated: more than one polling interval after the shell's death no
\* daemon accepts connections, and the address of an exited daemon is gone.
C6_GoneWithinInterval ==
  /\ (~shell.alive /\ shell.deadFor > PollInterval) => \A d \in Daemons : ~Serving(d)
  /\ \A d \in Daemons : daemon[d].st = "exited" => addrOwner # d

\* C6 amended: a daemon still serving for a dead shell is within one polling
\* interval of the shell's death or of its own start of serving, whichever is
\* later; the address of an exited daemon is gone.
C6_GoneWithinIntervalOfStart ==
  /\ \A d \in Daemons :
       (Serving(d) /\ ~shell.alive) =>
         (shell.deadFor <= PollInterval \/ daemon[d].upFor <= PollInterval)
  /\ \A d \in Daemons : daemon[d].st = "exited" => addrOwner # d

\* A daemon that served while the shell died has left by the poll, and its
\* address is free.
C6_Witness ==
  \E d \in Daemons :
    /\ daemon[d].st = "exited" /\ daemon[d].via = "poll"
    /\ daemon[d].upFor > PollInterval
    /\ ~shell.alive /\ shell.deadFor = PollInterval
    /\ addrOwner = 0

\* C7: a daemon that has terminated has run its on-exit cleanup hook, and its
\* address is no longer bound.
C7_CleanupHookRuns ==
  \A d \in Daemons : daemon[d].st = "exited" => (daemon[d].hook /\ addrOwner # d)

\* C8: at most one daemon serves at the shell's address, it is the one bound
\* to it, and all connections being served are served by that one daemon.
C8_OneDaemon ==
  /\ Cardinality({d \in Daemons : Serving(d)}) <= 1
  /\ \A d \in Daemons : Serving(d) <=> addrOwner = d
  /\ \A c \in Conns : conn[c].h = "run" => conn[c].d = addrOwner

\* Two invocations each started a daemon; one daemon serves both clients and
\* the other ended on its bind.
C8_Witness ==
  /\ client[1].spawned = 1 /\ client[2].spawned = 1
  /\ \E d \in Daemons : \E e \in Daemons \ {d} :
       /\ Serving(d)
       /\ daemon[e].st = "exited" /\ daemon[e].via = "bindfail"
       /\ \A c \in {1, 2} : conn[c].h = "run" /\ conn[c].d = d

\* A step of invocation c, or of the handler serving its connection.
StepOf(c) ==
  \/ client'[c] # client[c]
  \/ conn[c].h = "run" /\ conn'[c].h \in {"closed", "raised"}

\* C10: the bare invocation starts no daemon and writes no byte to the
\* channel, and neither its steps nor those of the handler that accepted its
\* connection change any daemon's context or state.
C10_ProbeOnly ==
  [][\A c \in Conns :
       client'[c].mode = "probe" =>
         /\ client'[c].spawned = 0
         /\ conn'[c].inb = <<>> /\ conn'[c].sent = <<>>
         /\ StepOf(c) =>
              \A d \in Daemons :
                /\ daemon'[d].context = daemon[d].context
                /\ daemon'[d].st = daemon[d].st]_vars

\* A bare invocation has connected and closed, its handler has ended, and the
\* daemon still serves the context a peer had set.
C10_Witness ==
  \E c \in Conns :
    /\ client[c].mode = "probe" /\ client[c].pc = "done"
    /\ conn[c].h = "closed"
    /\ \E d \in Daemons : Serving(d) /\ conn[c].d = d /\ daemon[d].context # <<>>

\* ------------------------------------------------------------------------
\* SpecDemand: an invocation that needs the daemon when none is there.  The
\* daemon it starts may be slow to bind and may be killed.  The sleep of the
\* retry loop always returns.
\* ------------------------------------------------------------------------
DemandArgs ==
  {[NoArgs EXCEPT !.clear = TRUE],
   [NoArgs EXCEPT !.print = TRUE],
   [NoArgs EXCEPT !.piped = TRUE, !.stdin = <<"n">>],
   [NoArgs EXCEPT !.prompt = <<"n">>, !.key = TRUE]}

NextDemand ==
  \/ \E a \in DemandArgs : InvokeWith(1, a)
  \/ ClientConnect(1)
  \/ ClientRetry(1)
  \/ ClientRequest(1)
  \/ ClientAwait(1)
  \/ ClientFetch(1)
  \/ ClientCall(1, <<"n">>)
  \/ ClientStore(1)
  \/ ClientFinish(1)
  \/ Handle(1)
  \/ \E d \in Daemons :
       \/ DaemonStart(d)
       \/ Sigterm(d)

SpecDemand == InitBoot /\ [][NextDemand]_vars /\ WF_vars(ClientRetry(1))

\* Daemon processes started so far.
Launched == Cardinality({d \in Daemons : daemon[d].st # "unborn"})

\* Calls of run_daemon by the invocations of S.
RECURSIVE SpawnedBy(_)
SpawnedBy(S) ==
  IF S = {} THEN 0
  ELSE LET c == CHOOSE x \in S : TRUE IN client[c].spawned + SpawnedBy(S \ {c})

\* The invocation c has ended.
Ended(c) == client[c].pc \in {"done", "failed", "crashed"}

\* C11 as stated: an invocation that found no daemon and started one gets its
\* connection within the retry budget and has a request served: it never ends
\* unserved while the daemon it started has not been killed.
C11_SpawnOnDemand ==
  \A c \in Conns :
    (client[c].spawned = 1 /\ Ended(c))
      => (Len(conn[c].done) >= 1 \/ \E d \in Daemons : daemon[d].st = "exited")

\* C11 amended: an invocation that finds no daemon starts exactly one, detached
\* (no step of the client ends a daemon); a retry that finds the address bound
\* connects, which happens within the 20 retries or not at all; and an
\* invocation that has connected does not end before its first request was
\* served unless the daemon is killed.  That the daemon is bound in time is not
\* promised.
C11_SpawnOnDemandIfBound ==
  /\ [](/\ SpawnedBy(Conns) = Launched
        /\ \A c \in Conns :
             /\ client[c].spawned <= 1
             /\ client[c].pc \in {"retry", "failed"} => client[c].spawned = 1
             /\ conn[c].h # "none" => client[c].tries < RetryBudget
             /\ (Ended(c) /\ conn[c].h # "none")
                  => (Len(conn[c].done) >= 1 \/ conn[c].h = "gone"))
  /\ [][\A c \in Conns :
          /\ (client[c].pc = "retry" /\ addrOwner # 0 /\ client'[c] # client[c])
               => (conn'[c].h = "run" /\ conn'[c].d = addrOwner)
          /\ client'[c] # client[c]
               => \A d \in Daemons : Serving(d) => daemon'[d].st = "serving"]_vars

\* The invocation started a daemon, waited for it through failed retries, was
\* served, and has exited; the daemon goes on serving.
C11_Witness ==
  \E c \in Conns :
    /\ client[c].pc = "done" /\ client[c].spawned = 1 /\ client[c].tries > 0
    /\ Len(conn[c].done) >= 1
    /\ conn[c].d # 0 /\ Serving(conn[c].d)

\* C12: the retry loop makes at most 20 attempts; when all fail the
\* invocation reports "Daemon failed to start." once, has written nothing to
\* the channel, and has stopped; the loop is always left.
C12_RetriesBounded ==
  /\ [](\A c \in Conns :
          /\ client[c].tries <= RetryBudget
          /\ client[c].pc = "retry" => (client[c].tries < RetryBudget /\ conn[c] = NoConn)
          /\ client[c].pc = "failed" =>
               /\ client[c].tries = RetryBudget
               /\ client[c].out = <<"Daemon failed to start.">>
               /\ conn[c] = NoConn)
  /\ \A c \in Conns : (client[c].pc = "retry") ~> (client[c].pc \in {"failed", "request"})

\* All 20 retries found the address unbound and the invocation has given up.
C12_Witness ==
  \E c \in Conns :
    client[c].pc = "failed" /\ client[c].tries = RetryBudget /\ addrOwner = 0

\* C13: an invocation that gave up on the daemon ends with a nonzero status.
C13_FailureStatus ==
  \A c \in Conns : client[c].pc = "failed" => ExitStatus(client[c].pc) # 0

\* ------------------------------------------------------------------------
\* The protocol over whole exchanges
\* ------------------------------------------------------------------------
\* Every value c sent is a get, set or clear request.
OnlyRequests(c) ==
  \A i \in 1..Len(conn[c].sent) : conn[c].sent[i].kind \in {"get", "set", "clear"}

\* C14: a connection that sent only get, set and clear requests, and alone
\* writes the context, has read exactly one response to each once the exchange
\* is at rest: the context for a get, `ok` for a set or clear.
C14_EveryRequestAnswered ==
  \A c \in Conns :
    (Quiet(c) /\ SoleWriter(c) /\ OnlyRequests(c))
      => conn[c].got = Answers(conn[c].sent, <<>>)

\* ------------------------------------------------------------------------
\* SpecClear: the first connection sets any text (or nothing) and then sends
\* clear, clear, get; the other connections each ask for the context once.
\* ------------------------------------------------------------------------
ClearScripts ==
  {<<Obj("clear", <<>>), Obj("clear", <<>>), Obj("get", <<>>)>>}
    \cup {<<Obj("set", t), Obj("clear", <<>>), Obj("clear", <<>>), Obj("get", <<>>)>> :
            t \in Text}

PeerClearScript(c) ==
  \E script \in ClearScripts :
    /\ Len(conn[c].sent) < Len(script)
    /\ IsPrefix(conn[c].sent, script)
    /\ PeerSend(c, script[Len(conn[c].sent) + 1], 4 + NumConns)

PeerAsk(c) ==
  /\ conn[c].sent = <<>>
  /\ PeerSend(c, Obj("get", <<>>), 4 + NumConns)

NextClear ==
  \/ PeerClearScript(1)
  \/ \E c \in Conns \ {1} : PeerAsk(c)
  \/ \E c \in Conns :
       \/ PeerConnect(c)
       \/ PeerRecv(c)
       \/ Handle(c)

SpecClear == InitServing /\ [][NextClear]_vars

\* C15: on a connection that alone writes the context, the context is empty
\* once a clear was the last request dispatched (the first clear or the one
\* repeated after it), and a get dispatched right after a clear is answered
\* the empty string.
C15_ClearIdempotent ==
  \A c \in Conns :
    SoleWriter(c) =>
      /\ (conn[c].done # <<>> /\ conn[c].done[Len(conn[c].done)].kind = "clear")
           => daemon[conn[c].d].context = <<>>
      /\ \A i \in 2..Len(conn[c].done) :
           (conn[c].done[i].kind = "get" /\ conn[c].done[i - 1].kind = "clear")
             => conn[c].wrote[i] = Obj("ctx", <<>>)

\* A text was set, cleared twice, and the get after it was answered "".
C15_Witness ==
  \E c \in Conns :
    /\ Len(conn[c].done) = 4
    /\ conn[c].done[1].kind = "set" /\ Len(conn[c].done[1].data) = MaxLen
    /\ conn[c].done[2].kind = "clear" /\ conn[c].done[3].kind = "clear"
    /\ conn[c].got = <<Obj("ok", <<>>), Obj("ok", <<>>), Obj("ok", <<>>), Obj("ctx", <<>>)>>
    /\ daemon[conn[c].d].context = <<>>

\* ------------------------------------------------------------------------
\* SpecTurn: one invocation with any arguments, after a peer has or has not
\* left a context in the daemon, or with no daemon there yet.
\* ------------------------------------------------------------------------
TurnPrompts == {<<>>, <<"LF">>, <<"n">>}

\* Piped input: empty, blank, a line, a file of BlockLen characters.
TurnStdins == {<<>>, <<"LF">>, <<"n", "LF">>, <<"BLK">>}

\* What call_gemini may return: a line, a line with its newline, a long text.
Responses == {<<"n">>, <<"n", "LF">>, <<"BLK">>}

\* Contexts the peer leaves: a short one, and one of BlockLen characters.
SeedText == {<<"n">>, <<"BLK">>}

TurnArgs ==
  {a \in [help : BOOLEAN, isolated : BOOLEAN, clear : BOOLEAN, print : BOOLEAN,
          prompt : TurnPrompts, piped : BOOLEAN, stdin : TurnStdins, key : BOOLEAN] :
     a.piped \/ a.stdin = <<>>}

\* The peer on connection p is not or no longer there.
PeerAway(p) == conn[p].h \in {"none", "closed", "raised", "gone"}

NextTurn ==
  \/ \E a \in TurnArgs : PeerAway(2) /\ InvokeWith(1, a)
  \/ ClientConnect(1)
  \/ ClientRetry(1)
  \/ ClientRequest(1)
  \/ ClientAwait(1)
  \/ ClientFetch(1)
  \/ \E response \in Responses : ClientCall(1, response)
  \/ ClientCallIsolated(1)
  \/ ClientStore(1)
  \/ ClientFinish(1)
  \/ client[1].pc = "init" /\ PeerConnect(2)
  \/ client[1].pc = "init" /\ \E t \in SeedText : PeerSend(2, Obj("set", t), 1)
  \/ client[1].pc = "init" /\ PeerClose(2)
  \/ \E c \in {1, 2} : Handle(c)
  \/ \E d \in Daemons : DaemonStart(d)

InitTurn == InitBoot \/ InitServing

SpecTurn == InitTurn /\ [][NextTurn]_vars

\* ------------------------------------------------------------------------
\* Properties of an invocation
\* ------------------------------------------------------------------------
\* The invocation c obtained its connection to the daemon.
Connected(c) == conn[c].h # "none"

\* Piped input and no textual prompt, in daemon-connected mode.
AddsContext(c) ==
  /\ client[c].mode = "turn"
  /\ UserPrompt(client[c].args) = <<>>
  /\ HasStdin(client[c].args)

\* A textual prompt in daemon-connected mode, with or without the API key.
Prompts(c, key) ==
  /\ client[c].mode = "turn"
  /\ UserPrompt(client[c].args) # <<>>
  /\ client[c].args.key = key

\* The context the invocation c works on: what its get fetched, with the
\* piped input appended.
Fetched(c) ==
  IF HasStdin(client[c].args)
    THEN AddContext(conn[c].got[1].data, client[c].args.stdin)
    ELSE conn[c].got[1].data

\* C16: an add-context-only invocation that has ended made the round trips
\* get and set, the set carrying the fetched context with the piped input
\* under the [Context] marker, called no generation, and closed the connection.
C16_AddContextOnly ==
  \A c \in Conns :
    (AddsContext(c) /\ Connected(c) /\ Ended(c)) =>
      /\ Len(conn[c].sent) = 2 /\ Len(conn[c].got) = 2
      /\ conn[c].sent[1] = Obj("get", <<>>) /\ conn[c].got[1].kind = "ctx"
      /\ conn[c].sent[2] = Obj("set", Fetched(c)) /\ conn[c].got[2] = Obj("ok", <<>>)
      /\ client[c].calls = 0
      /\ conn[c].ceof

\* C17: a prompt invocation with the API key that has ended made one
\* generation call and one set of the fetched context (with the piped input)
\* followed by that prompt and that response, the set was acknowledged, and
\* the daemon's context is now the fetched context extended by that turn.
C17_TurnPersisted ==
  \A c \in Conns :
    (Prompts(c, TRUE) /\ Connected(c) /\ Ended(c)) =>
      /\ client[c].calls = 1
      /\ Len(conn[c].sent) = 2 /\ Len(conn[c].got) = 2
      /\ conn[c].got[1].kind = "ctx" /\ conn[c].got[2] = Obj("ok", <<>>)
      /\ \E response \in Responses :
           conn[c].sent[2] =
             Obj("set", AddTurn(Fetched(c), UserPrompt(client[c].args), response))
      /\ daemon[conn[c].d].context = conn[c].sent[2].data
      /\ IsPrefix(conn[c].got[1].data, daemon[conn[c].d].context)

\* C19: an invocation with --isolated has no connection, has started no daemon
\* and has written nothing, whatever its other arguments, and none of its steps
\* changes a daemon or the binding of the address.
C19_IsolatedTouchesNothing ==
  /\ [](\A c \in Conns :
          client[c].args.isolated =>
            /\ conn[c] = NoConn
            /\ client[c].spawned = 0 /\ client[c].tries = 0
            /\ client[c].pc \in {"icall", "done"})
  /\ [][\A c \in Conns :
          (client'[c].args.isolated /\ client'[c] # client[c])
            => (daemon' = daemon /\ addrOwner' = addrOwner)]_vars

\* An isolated invocation that also carried --clear, a prompt and piped input
\* has generated and ended; the daemon still serves the context a peer left.
C19_Witness ==
  \E c \in Conns :
    /\ client[c].args.isolated /\ client[c].args.clear
    /\ HasStdin(client[c].args) /\ UserPrompt(client[c].args) # <<>>
    /\ client[c].pc = "done" /\ client[c].calls = 1
    /\ addrOwner # 0 /\ daemon[addrOwner].context # <<>>

\* C20: a prompt invocation without the API key writes the get and nothing
\* else, calls no generation, ends with the connection closed, and neither
\* its steps nor those of its handler change a daemon's context.
C20_NoKeyNoSet ==
  /\ [](\A c \in Conns :
          Prompts(c, FALSE) =>
            /\ IsPrefix(conn[c].sent, <<Obj("get", <<>>)>>)
            /\ client[c].calls = 0
            /\ (Ended(c) /\ Connected(c))
                 => (conn[c].sent = <<Obj("get", <<>>)>> /\ conn[c].ceof))
  /\ [][\A c \in Conns :
          (Prompts(c, FALSE)' /\ (client'[c] # client[c] \/ conn'[c] # conn[c]))
            => \A d \in Daemons : daemon'[d].context = daemon[d].context]_vars

\* A prompt with piped input and no API key has ended after its get: the
\* daemon's context is still the one a peer left, without the piped input.
C20_Witness ==
  \E c \in Conns :
    /\ Prompts(c, FALSE) /\ HasStdin(client[c].args)
    /\ client[c].pc = "done"
    /\ client[c].out = <<"Missing GEMINI_API_KEY">>
    /\ conn[c].h = "closed"
    /\ conn[c].got = <<Obj("ctx", <<"n">>)>>
    /\ daemon[conn[c].d].context = <<"n">>

\* ------------------------------------------------------------------------
\* SpecLost: prompt invocations of one shell running at once against a
\* serving daemon, each with its own prompt.
\* ------------------------------------------------------------------------
\* The prompt of invocation c: c characters.
LostPrompt(c) == [i \in 1..c |-> "n"]

LostArgs(c) == [NoArgs EXCEPT !.prompt = LostPrompt(c), !.key = TRUE]

NextLost ==
  \E c \in Conns :
    \/ InvokeWith(c, LostArgs(c))
    \/ ClientConnect(c)
    \/ ClientRequest(c)
    \/ ClientFetch(c)
    \/ ClientCall(c, <<"n">>)
    \/ ClientStore(c)
    \/ ClientFinish(c)
    \/ Handle(c)

SpecLost == InitServing /\ [][NextLost]_vars

\* The turn of invocation c, as it stands in a context.
TurnOf(c) == AddTurn(<<>>, LostPrompt(c), <<"n">>)

\* The turn of c occurs in text, at its end or followed by the next turn.
HasTurn(text, c) ==
  \E i \in 1..Len(text) :
    /\ i + Len(TurnOf(c)) - 1 <= Len(text)
    /\ SubSeq(text, i, i + Len(TurnOf(c)) - 1) = TurnOf(c)
    /\ (i + Len(TurnOf(c)) - 1 = Len(text) \/ text[i + Len(TurnOf(c))] = "LF")

\* The set of invocation c was dispatched and acknowledged.
Stored(c) ==
  /\ client[c].pc = "done"
  /\ Len(conn[c].done) = 2
  /\ conn[c].got[2] = Obj("ok", <<>>)

\* C18: each set replaces the context by what its invocation fetched plus its
\* own turn, so the context is always empty or the data of one set (the last
\* dispatched), and of two invocations that fetched the same context and both
\* completed their set the context holds the turn of one only.
C18_LastWriteWins ==
  /\ \A c \in Conns :
       Len(conn[c].done) = 2 =>
         conn[c].done[2] = Obj("set", conn[c].got[1].data \o TurnOf(c))
  /\ daemon[1].context \in
       {<<>>} \cup {conn[c].done[2].data : c \in {x \in Conns : Len(conn[x].done) = 2}}
  /\ \A c \in Conns : \A o \in Conns \ {c} :
       (Stored(c) /\ Stored(o) /\ conn[c].got[1] = conn[o].got[1])
         => ~(HasTurn(daemon[1].context, c) /\ HasTurn(daemon[1].context, o))

\* Two invocations fetched the empty context, both completed their set, and
\* the context is the turn of the one whose set came last: the other is lost.
C18_Witness ==
  \E c \in Conns : \E o \in Conns \ {c} :
    /\ Stored(c) /\ Stored(o)
    /\ conn[c].got[1] = Obj("ctx", <<>>) /\ conn[o].got[1] = Obj("ctx", <<>>)
    /\ daemon[1].context = TurnOf(c)
    /\ ~HasTurn(daemon[1].context, o)

====
